---------------------------- MODULE Spec2Model ----------------------------
(***************************************************************************)
(* State-machine model of the two ledgers of polygon-toolkit:              *)
(*   StakingContract  (src/contracts/StakingContract.sol)                  *)
(*   VestingContract  (src/unnamed/part_010, second contract of the file)  *)
(*                                                                         *)
(* Every external function is one action.  A call that reverts leaves the  *)
(* contract state as it was (EVM rollback); the outcome of the call (the   *)
(* revert reason, or "ok" and the tokens paid out) is recorded in          *)
(* lastStake / lastVest so that properties can speak about it.             *)
(*                                                                         *)
(* Units.  TLC integers are 32 bit, so the fixed-point constants are       *)
(* scaled: a rate r of the model is the Solidity rate r * 1e18/PRECISION   *)
(* and a clock tick is (365 days)/SECONDS_PER_YEAR seconds.  For such      *)
(* rates and times the Solidity quotient                                   *)
(*   amount * rate * elapsed / (1e18 * 365 days)                           *)
(* is exactly amount * r * t / (PRECISION * SECONDS_PER_YEAR) of the model,*)
(* amounts being token base units in both.  All quantities stay far below  *)
(* 2^64 and 2^256, so checked arithmetic never overflows; subtraction that *)
(* would underflow is guarded as in the source.                            *)
(***************************************************************************)
EXTENDS Integers, Sequences, FiniteSets, TLC

\* ----------------------------------------------------------------- bounds
MaxTime == 2           \* last clock value of the staking runs
MaxAmount == 2         \* largest amount staked or withdrawn in one call
MaxLock == 2           \* longest lock period
MaxSettleTime == 4     \* last clock value of the reward-settling runs
MaxVestTime == 2       \* last clock value of the vesting runs
MaxVestAmount == 3     \* largest totalAmount of a schedule
MaxDuration == 2       \* longest vestingDuration / cliffDuration
MaxSchedules == 2      \* schedules created in one run

InitialBalance == MaxAmount        \* staking tokens of each user
RewardPool == MaxAmount            \* reward tokens funded into the contract
OwnerFunds == 2 * MaxVestAmount      \* vesting tokens of the owner

\* ------------------------------------------------------ program constants
PRECISION == 1
SECONDS_PER_YEAR == 2

\* -------------------------------------------------------------- addresses
Users == {"u1", "u2"}
Owner == "owner"
StakingAddr == "staking"
StakeHolders == Users \cup {Owner, StakingAddr}
StakeCallers == Users \cup {Owner}
Tokens == {"STK", "RWD"}
stakingToken == "STK"

Amounts == 0..MaxAmount
Rates == 0..(PRECISION + 1)
LockPeriods == 0..MaxLock

\* vesting
Beneficiaries == {"b1", "b2"}
ZeroAddr == "0x0"
VestingAddr == "vesting"
VestHolders == Beneficiaries \cup {Owner, VestingAddr}
VestCallers == Beneficiaries \cup {Owner}

VARIABLES
  now,                      \* block.timestamp
  vestingSchedules,         \* mapping(bytes32 => VestingSchedule), the stored ids
  beneficiarySchedules,     \* mapping(address => bytes32[])
  vestingScheduleCount,
  totalVestedAmount,
  totalClaimedAmount,
  vestBal,                  \* vesting token balances: holder -> amount
  lastVest,                 \* outcome of the last VestingContract call
  vestingGuard,             \* VestingContract: ReentrancyGuard status, call in progress
  stakes,                   \* mapping(address => StakeData)
  rewardRate,
  lockPeriod,
  totalStaked,
  totalRewardsDistributed,
  rewardToken,              \* immutable, chosen by the constructor
  tokenBal,                 \* ERC20 balances: token -> holder -> amount
  lastStake,                \* outcome of the last StakingContract call
  lastEvent,                \* admin event emitted by the last StakingContract call
  stakingGuard              \* StakingContract: ReentrancyGuard status, call in progress

stakingVars == <<stakes, rewardRate, lockPeriod, totalStaked,
                 totalRewardsDistributed, rewardToken, tokenBal, lastStake, lastEvent,
                 stakingGuard>>

vestingVars == <<vestingSchedules, beneficiarySchedules, vestingScheduleCount,
                 totalVestedAmount, totalClaimedAmount, vestBal, lastVest,
                 vestingGuard>>

vars == <<now, stakingVars, vestingVars>>

\* ------------------------------------------------------ ReentrancyGuard
\* the functions declared nonReentrant
NonReentrantOps == {"stake", "withdraw", "claimRewards", "createVesting", "claim", "claimAll"}

\* status is the guard's _status; inCall names the function of the contract
\* whose token transfer is running a callback of the token ("none": no call
\* of the contract is in progress) and by the party whose code the callback
\* runs
IdleGuard == [status |-> "NOT_ENTERED", inCall |-> "none", by |-> "none"]

\* _status while function op is executing: only a nonReentrant function sets it
StatusDuring(op) == IF op \in NonReentrantOps THEN "ENTERED" ELSE "NOT_ENTERED"

\* the nonReentrant modifier refuses the call
ReentrantCall(guard) == guard.status = "ENTERED"

\* block.timestamp is constant within a transaction
NoCallInProgress == stakingGuard.inCall = "none" /\ vestingGuard.inCall = "none"

\* c can make a call: no call is in progress, or the callback runs c's code
InControl(c) == NoCallInProgress \/ c = stakingGuard.by \/ c = vestingGuard.by

\* the call ran a transfer of the token: stake, createVesting and
\* emergencyWithdrawRewards transfer whatever the amount, the others only
\* what they pay
TransferMade(call) ==
  /\ call.err = "ok"
  /\ call.op # "none"
  /\ call.op \in {"stake", "createVesting", "emergencyWithdrawRewards"} \/ call.paid > 0

\* ------------------------------------------------------------ StakeData
EmptyStake == [amount |-> 0, rewardDebt |-> 0, lastUpdateTime |-> 0, lockUntil |-> 0]

\* outcome of a call: the function, "ok" or the revert reason, and the tokens
\* the call transferred out of the contract
NoCall == [op |-> "none", err |-> "ok", paid |-> 0]

Call(op, caller, arg, err, paid) == [op |-> op, err |-> err, paid |-> paid]

\* ERC20 transfer of amt from holder a to holder b of token t (balances only)
Transfer(bal, t, a, b, amt) ==
  IF a = b THEN bal
  ELSE [bal EXCEPT ![t][a] = @ - amt, ![t][b] = @ + amt]

CanTransfer(bal, t, a, amt) == bal[t][a] >= amt

\* the reward expression of _calculatePendingReward, with the two fixed-point
\* constants as parameters: one multiplication chain, then one division
Reward_DivideFirst(amount, rate, timeElapsed, precision, secondsPerYear) ==
  ((amount * rate) \div (precision * secondsPerYear)) * timeElapsed
Reward(amount, rate, timeElapsed, precision, secondsPerYear) ==
  (amount * rate * timeElapsed) \div (precision * secondsPerYear)

\* _calculatePendingReward, of stake record s at block timestamp t
PendingRewardAt(s, t) ==
  IF s.amount = 0 \/ rewardRate = 0 THEN 0
  ELSE LET timeElapsed == t - s.lastUpdateTime IN
       IF timeElapsed = 0 THEN 0
       ELSE Reward(s.amount, rewardRate, timeElapsed, PRECISION, SECONDS_PER_YEAR)

\* _calculatePendingReward
CalculatePendingReward(s) == PendingRewardAt(s, now)

\* _calculateRewardDebt
CalculateRewardDebt(s) ==
  IF s.amount = 0 \/ rewardRate = 0 THEN 0
  ELSE LET timeElapsed == now - s.lastUpdateTime IN
       IF timeElapsed = 0 THEN s.rewardDebt
       ELSE s.rewardDebt +
            ((s.amount * rewardRate * timeElapsed) \div (PRECISION * SECONDS_PER_YEAR))

\* _updateRewards
UpdateRewards(s) ==
  IF s.amount > 0
  THEN [s EXCEPT !.rewardDebt = CalculateRewardDebt(s), !.lastUpdateTime = now]
  ELSE s

\* stake: the lock is extended, never shortened
LockAfterStake_Reset(s) == IF lockPeriod > 0 THEN now + lockPeriod ELSE 0
LockAfterStake(s) ==
  IF lockPeriod > 0
  THEN LET newLockUntil == now + lockPeriod IN
       IF newLockUntil > s.lockUntil THEN newLockUntil ELSE s.lockUntil
  ELSE s.lockUntil

\* Ownable.onlyOwner
OnlyOwner_Anyone(c) == TRUE
OnlyOwner(c) == c = Owner

\* stake, withdraw: the zero-amount check
IsZeroAmount_Never(amount) == FALSE
IsZeroAmount(amount) == amount = 0

\* withdraw: the principal check
HasInsufficientBalance_Never(s, amount) == FALSE
HasInsufficientBalance(s, amount) == s.amount < amount

\* claimRewards: totalRewardsDistributed += pendingReward
DistributedAfterClaim_Same(pendingReward) == totalRewardsDistributed
DistributedAfterClaim(pendingReward) == totalRewardsDistributed + pendingReward

\* claimRewards: the checkpoint written when a reward is paid
LastUpdateAfterClaim_Kept(s) == s.lastUpdateTime
LastUpdateAfterClaim(s) == now

TotalStakedAfterStake_NoAdd(amount) == totalStaked
TotalStakedAfterStake(amount) == totalStaked + amount

TotalStakedAfterWithdraw(amount) == totalStaked - amount

\* getPendingReward
getPendingReward(u) == CalculatePendingReward(stakes[u])

\* RewardRateUpdated(oldRate, newRate) and LockPeriodUpdated(oldPeriod,
\* newPeriod), by name and their two arguments in the order emitted
NoEvent == [name |-> "none", old |-> 0, new |-> 0]
Event(name, old, new) == [name |-> name, old |-> old, new |-> new]

StakeFail(op, caller, arg, err) ==
  /\ lastStake' = Call(op, caller, arg, err, 0)
  /\ lastEvent' = NoEvent
  /\ UNCHANGED <<stakingGuard, vestingVars, now, stakes, rewardRate, lockPeriod, totalStaked,
                 totalRewardsDistributed, rewardToken, tokenBal>>

\* ----------------------------------------------------------------- stake
Stake(u, amount) ==
  IF ReentrantCall(stakingGuard) THEN StakeFail("stake", u, amount, "ReentrantCall")
  ELSE IF IsZeroAmount(amount) THEN StakeFail("stake", u, amount, "ZeroAmount")
  ELSE IF ~CanTransfer(tokenBal, stakingToken, u, amount)
  THEN StakeFail("stake", u, amount, "TransferFailed")
  ELSE LET upd == UpdateRewards(stakes[u]) IN
       /\ stakes' = [stakes EXCEPT ![u] =
             [upd EXCEPT !.amount = upd.amount + amount,
                         !.lastUpdateTime = now,
                         !.lockUntil = LockAfterStake(upd)]]
       /\ totalStaked' = TotalStakedAfterStake(amount)
       /\ tokenBal' = Transfer(tokenBal, stakingToken, u, StakingAddr, amount)
       /\ lastEvent' = NoEvent
       /\ lastStake' = Call("stake", u, amount, "ok", 0)
       /\ UNCHANGED <<stakingGuard, vestingVars, now, rewardRate, lockPeriod,
                      totalRewardsDistributed, rewardToken>>

\* -------------------------------------------------------------- withdraw
Withdraw(u, amount) ==
  IF ReentrantCall(stakingGuard) THEN StakeFail("withdraw", u, amount, "ReentrantCall")
  ELSE IF IsZeroAmount(amount) THEN StakeFail("withdraw", u, amount, "ZeroAmount")
  ELSE IF HasInsufficientBalance(stakes[u], amount)
  THEN StakeFail("withdraw", u, amount, "InsufficientBalance")
  ELSE IF stakes[u].lockUntil > 0 /\ now < stakes[u].lockUntil
  THEN StakeFail("withdraw", u, amount, "TokensLocked")
  ELSE IF ~CanTransfer(tokenBal, stakingToken, StakingAddr, amount)
  THEN StakeFail("withdraw", u, amount, "TransferFailed")
  ELSE LET upd == UpdateRewards(stakes[u]) IN
       /\ stakes' = [stakes EXCEPT ![u] = [upd EXCEPT !.amount = upd.amount - amount]]
       /\ totalStaked' = TotalStakedAfterWithdraw(amount)
       /\ tokenBal' = Transfer(tokenBal, stakingToken, StakingAddr, u, amount)
       /\ lastEvent' = NoEvent
       /\ lastStake' = Call("withdraw", u, amount, "ok", amount)
       /\ UNCHANGED <<stakingGuard, vestingVars, now, rewardRate, lockPeriod,
                      totalRewardsDistributed, rewardToken>>

\* ---------------------------------------------------------- claimRewards
ClaimRewards(u) ==
  LET s == stakes[u]
      pendingReward == CalculatePendingReward(s) IN
  IF ReentrantCall(stakingGuard) THEN StakeFail("claimRewards", u, 0, "ReentrantCall")
  ELSE IF s.amount = 0 \/ pendingReward = 0
  THEN StakeFail("claimRewards", u, 0, "ok")
  ELSE IF ~CanTransfer(tokenBal, rewardToken, StakingAddr, pendingReward)
  THEN StakeFail("claimRewards", u, 0, "TransferFailed")
  ELSE /\ stakes' = [stakes EXCEPT ![u] =
             [s EXCEPT !.rewardDebt = CalculateRewardDebt(s),
                       !.lastUpdateTime = LastUpdateAfterClaim(s)]]
       /\ totalRewardsDistributed' = DistributedAfterClaim(pendingReward)
       /\ tokenBal' = Transfer(tokenBal, rewardToken, StakingAddr, u, pendingReward)
       /\ lastEvent' = NoEvent
       /\ lastStake' = Call("claimRewards", u, 0, "ok", pendingReward)
       /\ UNCHANGED <<stakingGuard, vestingVars, now, rewardRate, lockPeriod, totalStaked, rewardToken>>

\* --------------------------------------------------------- setRewardRate
\* setRewardRate writes rewardRate only: no stake is settled at the old rate
StakesAfterRateChange_Settled(newRate) == [u \in Users |-> UpdateRewards(stakes[u])]
StakesAfterRateChange(newRate) == stakes

SetRewardRate(c, newRate) ==
  IF ~OnlyOwner(c) THEN StakeFail("setRewardRate", c, newRate, "NotOwner")
  ELSE IF newRate > PRECISION
  THEN StakeFail("setRewardRate", c, newRate, "InvalidRewardRate")
  ELSE /\ rewardRate' = newRate
       /\ stakes' = StakesAfterRateChange(newRate)
       /\ lastStake' = Call("setRewardRate", c, newRate, "ok", 0)
       /\ lastEvent' = LET oldRate == rewardRate IN
                       Event("RewardRateUpdated", oldRate, newRate)
       /\ UNCHANGED <<stakingGuard, vestingVars, now, lockPeriod, totalStaked, totalRewardsDistributed,
                      rewardToken, tokenBal>>

\* --------------------------------------------------------- setLockPeriod
SetLockPeriod(c, newPeriod) ==
  IF ~OnlyOwner(c) THEN StakeFail("setLockPeriod", c, newPeriod, "NotOwner")
  ELSE /\ lockPeriod' = newPeriod
       /\ lastStake' = Call("setLockPeriod", c, newPeriod, "ok", 0)
       /\ lastEvent' = Event("LockPeriodUpdated", lockPeriod', newPeriod)
       /\ UNCHANGED <<stakingGuard, vestingVars, now, stakes, rewardRate, totalStaked, totalRewardsDistributed,
                      rewardToken, tokenBal>>

\* ---------------------------------------------- emergencyWithdrawRewards
EmergencyWithdrawRewards(c, amount) ==
  IF ~OnlyOwner(c) THEN StakeFail("emergencyWithdrawRewards", c, amount, "NotOwner")
  ELSE IF ~CanTransfer(tokenBal, rewardToken, StakingAddr, amount)
  THEN StakeFail("emergencyWithdrawRewards", c, amount, "TransferFailed")
  ELSE /\ tokenBal' = Transfer(tokenBal, rewardToken, StakingAddr, Owner, amount)
       /\ lastEvent' = NoEvent
       /\ lastStake' = Call("emergencyWithdrawRewards", c, amount, "ok", amount)
       /\ UNCHANGED <<stakingGuard, vestingVars, now, stakes, rewardRate, lockPeriod, totalStaked,
                      totalRewardsDistributed, rewardToken>>

\* ------------------------------------------------------------------ clock
StakingTick ==
  /\ NoCallInProgress
  /\ now < MaxTime
  /\ now' = now + 1
  /\ lastStake' = NoCall
  /\ lastEvent' = NoEvent
  /\ UNCHANGED <<stakingGuard, vestingVars, stakes, rewardRate, lockPeriod, totalStaked,
                 totalRewardsDistributed, rewardToken, tokenBal>>


(***************************************************************************)
(* VestingContract                                                         *)
(***************************************************************************)
VestAmounts == {0, MaxVestAmount}
Durations == 0..MaxDuration
StartTimes == {0, 1}           \* 0 = "use the current block timestamp"

\* the value of an unset mapping entry
NoSchedule ==
  [beneficiary |-> ZeroAddr, totalAmount |-> 0, claimedAmount |-> 0,
   startTime |-> 0, cliffDuration |-> 0, vestingDuration |-> 0, revoked |-> FALSE]

\* keccak256(abi.encodePacked(...)): the id is the packed tuple itself, which
\* is what a collision-free hash of it distinguishes
ScheduleId(beneficiary, totalAmount, startTime, cliff, duration, timestamp, count) ==
  <<beneficiary, totalAmount, startTime, cliff, duration, timestamp, count>>

UnknownId == <<ZeroAddr, 0, 0, 0, 0, 0, 0>>

KnownIds == DOMAIN vestingSchedules
AnyIds == KnownIds \cup {UnknownId}

\* vestingSchedules[scheduleId]
Schedule(scheds, id) == IF id \in DOMAIN scheds THEN scheds[id] ELSE NoSchedule

\* getVestedAmount, of schedule record s at block timestamp t
VestedAt_NoCliff(s, t) ==
  IF s.beneficiary = ZeroAddr THEN 0
  ELSE IF t < s.startTime THEN 0
  ELSE LET elapsed == t - s.startTime IN
       IF elapsed >= s.vestingDuration THEN s.totalAmount
       ELSE (s.totalAmount * elapsed) \div s.vestingDuration

VestedAt_NoCap(s, t) ==
  IF s.beneficiary = ZeroAddr THEN 0
  ELSE IF t < s.startTime THEN 0
  ELSE IF t < s.startTime + s.cliffDuration THEN 0
  ELSE (s.totalAmount * (t - s.startTime)) \div s.vestingDuration

VestedAt_FromCliff(s, t) ==
  IF s.beneficiary = ZeroAddr THEN 0
  ELSE IF t < s.startTime THEN 0
  ELSE IF t < s.startTime + s.cliffDuration THEN 0
  ELSE LET elapsed == t - s.startTime IN
       IF elapsed >= s.vestingDuration THEN s.totalAmount
       ELSE (s.totalAmount * (elapsed - s.cliffDuration)) \div s.vestingDuration

VestedAt(s, t) ==
  IF s.beneficiary = ZeroAddr THEN 0
  ELSE LET currentTime == t IN
       IF currentTime < s.startTime THEN 0
       ELSE LET cliffTime == s.startTime + s.cliffDuration IN
            IF currentTime < cliffTime THEN 0
            ELSE LET elapsed == currentTime - s.startTime IN
                 IF elapsed >= s.vestingDuration THEN s.totalAmount
                 ELSE (s.totalAmount * elapsed) \div s.vestingDuration

\* getClaimableAmount, of schedule record s at block timestamp t
ClaimableAt_Unvested(s, t) ==
  IF s.beneficiary = ZeroAddr \/ s.revoked THEN 0
  ELSE s.totalAmount - s.claimedAmount
ClaimableAt_IgnoreRevoked(s, t) ==
  IF s.beneficiary = ZeroAddr THEN 0
  ELSE LET vested == VestedAt(s, t) IN
       IF vested > s.claimedAmount THEN vested - s.claimedAmount ELSE 0

ClaimableAt(s, t) ==
  IF s.beneficiary = ZeroAddr \/ s.revoked THEN 0
  ELSE LET vested == VestedAt(s, t) IN
       IF vested > s.claimedAmount THEN vested - s.claimedAmount ELSE 0

getVestedAmount(id) == VestedAt(Schedule(vestingSchedules, id), now)
getClaimableAmount(id) == ClaimableAt(Schedule(vestingSchedules, id), now)

\* claim: the caller check
IsBeneficiary_Anyone(c, schedule) == TRUE
IsBeneficiary(c, schedule) == c = schedule.beneficiary

\* claim: schedule.claimedAmount += claimableAmount
ClaimedAfterClaim_Forgotten(claimed, claimable) == claimed
ClaimedAfterClaim(claimed, claimable) == claimed + claimable

VestFail(op, err) ==
  /\ lastVest' = [op |-> op, err |-> err, paid |-> 0]
  /\ UNCHANGED <<vestingGuard, stakingVars, now, vestingSchedules, beneficiarySchedules,
                 vestingScheduleCount, totalVestedAmount, totalClaimedAmount, vestBal>>

\* --------------------------------------------------------- createVesting
\* createVesting: the cliff may not be longer than the whole vesting
CliffTooLong_Never(cliffDuration, vestingDuration) == FALSE
CliffTooLong(cliffDuration, vestingDuration) == cliffDuration > vestingDuration

\* createVesting: vestingScheduleCount++
CountAfterCreate_Same(count) == count
CountAfterCreate(count) == count + 1

CreateVesting(c, beneficiary, totalAmount, startTimeArg, cliffDuration, vestingDuration) ==
  IF ~OnlyOwner(c) THEN VestFail("createVesting", "NotOwner")
  ELSE IF ReentrantCall(vestingGuard) THEN VestFail("createVesting", "ReentrantCall")
  ELSE IF beneficiary = ZeroAddr THEN VestFail("createVesting", "InvalidVestingParameters")
  ELSE IF totalAmount = 0 THEN VestFail("createVesting", "ZeroAmount")
  ELSE IF vestingDuration = 0 THEN VestFail("createVesting", "InvalidVestingParameters")
  ELSE IF CliffTooLong(cliffDuration, vestingDuration)
  THEN VestFail("createVesting", "InvalidVestingParameters")
  ELSE LET startTime == IF startTimeArg = 0 THEN now ELSE startTimeArg
           scheduleId == ScheduleId(beneficiary, totalAmount, startTime, cliffDuration,
                                    vestingDuration, now, vestingScheduleCount)
       IN
       IF Schedule(vestingSchedules, scheduleId).beneficiary # ZeroAddr
       THEN VestFail("createVesting", "ScheduleExists")
       ELSE IF vestBal[c] < totalAmount
       THEN VestFail("createVesting", "TransferFailed")
       ELSE /\ vestingSchedules' =
                 [id \in KnownIds \cup {scheduleId} |->
                    IF id = scheduleId
                    THEN [beneficiary |-> beneficiary, totalAmount |-> totalAmount,
                          claimedAmount |-> 0, startTime |-> startTime,
                          cliffDuration |-> cliffDuration,
                          vestingDuration |-> vestingDuration, revoked |-> FALSE]
                    ELSE vestingSchedules[id]]
            /\ beneficiarySchedules' =
                 [beneficiarySchedules EXCEPT ![beneficiary] = Append(@, scheduleId)]
            /\ vestingScheduleCount' = CountAfterCreate(vestingScheduleCount)
            /\ totalVestedAmount' = totalVestedAmount + totalAmount
            /\ vestBal' = [vestBal EXCEPT ![c] = @ - totalAmount,
                                          ![VestingAddr] = @ + totalAmount]
            /\ lastVest' = [op |-> "createVesting", err |-> "ok", paid |-> 0]
            /\ UNCHANGED <<vestingGuard, stakingVars, now, totalClaimedAmount>>

\* ------------------------------------------------------------------ claim
Claim(c, scheduleId) ==
  LET schedule == Schedule(vestingSchedules, scheduleId)
      claimableAmount == getClaimableAmount(scheduleId) IN
  IF ReentrantCall(vestingGuard) THEN VestFail("claim", "ReentrantCall")
  ELSE IF schedule.beneficiary = ZeroAddr THEN VestFail("claim", "VestingNotFound")
  ELSE IF schedule.revoked THEN VestFail("claim", "VestingAlreadyRevoked")
  ELSE IF ~IsBeneficiary(c, schedule) THEN VestFail("claim", "NotBeneficiary")
  ELSE IF claimableAmount = 0 THEN VestFail("claim", "NothingToClaim")
  ELSE IF vestBal[VestingAddr] < claimableAmount THEN VestFail("claim", "TransferFailed")
  ELSE /\ vestingSchedules' = [vestingSchedules EXCEPT
             ![scheduleId].claimedAmount = ClaimedAfterClaim(@, claimableAmount)]
       /\ totalClaimedAmount' = totalClaimedAmount + claimableAmount
       /\ vestBal' = [vestBal EXCEPT ![VestingAddr] = @ - claimableAmount,
                                     ![schedule.beneficiary] = @ + claimableAmount]
       /\ lastVest' = [op |-> "claim", err |-> "ok", paid |-> claimableAmount]
       /\ UNCHANGED <<vestingGuard, stakingVars, now, beneficiarySchedules, vestingScheduleCount,
                      totalVestedAmount>>

\* --------------------------------------------------------------- claimAll
\* the loop over schedules[i .. length-1]: the schedules as updated and the sum
ClaimAllLoop_FirstOnly(c, schedules, i, scheds, totalClaimable) ==
  IF i > Len(schedules) THEN [scheds |-> scheds, total |-> totalClaimable]
  ELSE LET scheduleId == schedules[i]
           schedule == Schedule(scheds, scheduleId)
           claimable == ClaimableAt(schedule, now) IN
       IF schedule.beneficiary = c /\ ~schedule.revoked /\ claimable > 0
       THEN [scheds |-> [scheds EXCEPT ![scheduleId].claimedAmount = @ + claimable],
             total |-> totalClaimable + claimable]
       ELSE [scheds |-> scheds, total |-> totalClaimable]

RECURSIVE ClaimAllLoop(_, _, _, _, _)
ClaimAllLoop(c, schedules, i, scheds, totalClaimable) ==
  IF i > Len(schedules) THEN [scheds |-> scheds, total |-> totalClaimable]
  ELSE LET scheduleId == schedules[i]
           schedule == Schedule(scheds, scheduleId)
           claimable == ClaimableAt(schedule, now) IN
       IF schedule.beneficiary = c /\ ~schedule.revoked /\ claimable > 0
       THEN ClaimAllLoop(c, schedules, i + 1,
              [scheds EXCEPT ![scheduleId].claimedAmount = @ + claimable],
              totalClaimable + claimable)
       ELSE ClaimAllLoop(c, schedules, i + 1, scheds, totalClaimable)

ClaimAll(c) ==
  LET r == ClaimAllLoop(c, beneficiarySchedules[c], 1, vestingSchedules, 0) IN
  IF ReentrantCall(vestingGuard) THEN VestFail("claimAll", "ReentrantCall")
  ELSE IF r.total = 0 THEN VestFail("claimAll", "NothingToClaim")
  ELSE IF vestBal[VestingAddr] < r.total THEN VestFail("claimAll", "TransferFailed")
  ELSE /\ vestingSchedules' = r.scheds
       /\ totalClaimedAmount' = totalClaimedAmount + r.total
       /\ vestBal' = [vestBal EXCEPT ![VestingAddr] = @ - r.total, ![c] = @ + r.total]
       /\ lastVest' = [op |-> "claimAll", err |-> "ok", paid |-> r.total]
       /\ UNCHANGED <<vestingGuard, stakingVars, now, beneficiarySchedules, vestingScheduleCount,
                      totalVestedAmount>>

\* ---------------------------------------------------------- revokeVesting
RevokedAfterRevoke_Stays(schedule) == schedule.revoked
RevokedAfterRevoke(schedule) == TRUE

\* revokeVesting: the part returned to the owner
UnvestedAmount_Whole(schedule, vestedAmount) == schedule.totalAmount
UnvestedAmount(schedule, vestedAmount) == schedule.totalAmount - vestedAmount

RevokeVesting(c, scheduleId) ==
  LET schedule == Schedule(vestingSchedules, scheduleId)
      vestedAmount == getVestedAmount(scheduleId)
      unvestedAmount == UnvestedAmount(schedule, vestedAmount) IN
  IF ~OnlyOwner(c) THEN VestFail("revokeVesting", "NotOwner")
  ELSE IF schedule.beneficiary = ZeroAddr THEN VestFail("revokeVesting", "VestingNotFound")
  ELSE IF schedule.revoked THEN VestFail("revokeVesting", "VestingAlreadyRevoked")
  ELSE IF vestBal[VestingAddr] < unvestedAmount
  THEN VestFail("revokeVesting", "TransferFailed")
  ELSE /\ vestingSchedules' = [vestingSchedules EXCEPT
             ![scheduleId].revoked = RevokedAfterRevoke(schedule)]
       /\ vestBal' = [vestBal EXCEPT ![VestingAddr] = @ - unvestedAmount,
                                     ![Owner] = @ + unvestedAmount]
       /\ lastVest' = [op |-> "revokeVesting", err |-> "ok", paid |-> unvestedAmount]
       /\ UNCHANGED <<vestingGuard, stakingVars, now, beneficiarySchedules, vestingScheduleCount,
                      totalVestedAmount, totalClaimedAmount>>

\* ------------------------------------------------------------------ clock
VestingTick ==
  /\ NoCallInProgress
  /\ now < MaxVestTime
  /\ now' = now + 1
  /\ lastVest' = NoCall
  /\ UNCHANGED <<vestingGuard, stakingVars, vestingSchedules, beneficiarySchedules,
                 vestingScheduleCount, totalVestedAmount, totalClaimedAmount, vestBal>>

(***************************************************************************)
(* Token-transfer callbacks.  A token with transfer hooks runs code of the *)
(* counterparty inside safeTransfer / safeTransferFrom, while the function *)
(* that transfers is still executing.  withdraw, claimRewards, claim,      *)
(* claimAll, createVesting, revokeVesting and emergencyWithdrawRewards     *)
(* write nothing after their transfer, so the state the callback sees is   *)
(* the state the function leaves; stake writes the caller's StakeData and  *)
(* totalStaked after its transfer, which no function that can run inside   *)
(* its callback reads.                                                     *)
(***************************************************************************)
\* the transfer of the last StakingContract call hands control to party:
\* owner() for emergencyWithdrawRewards, msg.sender for the others
StakingCallback(party) ==
  /\ NoCallInProgress
  /\ TransferMade(lastStake)
  /\ IF lastStake.op = "emergencyWithdrawRewards" THEN party = Owner ELSE party \in Users
  /\ stakingGuard' = [status |-> StatusDuring(lastStake.op), inCall |-> lastStake.op,
                      by |-> party]
  /\ UNCHANGED <<vestingVars, now, stakes, rewardRate, lockPeriod, totalStaked,
                 totalRewardsDistributed, rewardToken, tokenBal, lastStake, lastEvent>>

\* the callback returns and the function completes: nonReentrant resets _status
StakingReturn ==
  /\ stakingGuard.inCall # "none"
  /\ stakingGuard' = IdleGuard
  /\ lastStake' = NoCall
  /\ lastEvent' = NoEvent
  /\ UNCHANGED <<vestingVars, now, stakes, rewardRate, lockPeriod, totalStaked,
                 totalRewardsDistributed, rewardToken, tokenBal>>

\* the transfer of the last VestingContract call hands control to party:
\* the beneficiary for claim and claimAll, the owner for createVesting
\* (msg.sender) and revokeVesting (owner())
VestingCallback(party) ==
  /\ NoCallInProgress
  /\ TransferMade(lastVest)
  /\ IF lastVest.op \in {"claim", "claimAll"} THEN party \in Beneficiaries ELSE party = Owner
  /\ vestingGuard' = [status |-> StatusDuring(lastVest.op), inCall |-> lastVest.op,
                      by |-> party]
  /\ UNCHANGED <<stakingVars, now, vestingSchedules, beneficiarySchedules,
                 vestingScheduleCount, totalVestedAmount, totalClaimedAmount, vestBal,
                 lastVest>>

VestingReturn ==
  /\ vestingGuard.inCall # "none"
  /\ vestingGuard' = IdleGuard
  /\ lastVest' = NoCall
  /\ UNCHANGED <<stakingVars, now, vestingSchedules, beneficiarySchedules,
                 vestingScheduleCount, totalVestedAmount, totalClaimedAmount, vestBal>>

\* time passes between transactions
ReentryTick ==
  /\ NoCallInProgress
  /\ now < MaxTime
  /\ now' = now + 1
  /\ lastStake' = NoCall
  /\ lastEvent' = NoEvent
  /\ lastVest' = NoCall
  /\ UNCHANGED <<stakingGuard, vestingGuard, stakes, rewardRate, lockPeriod, totalStaked,
                 totalRewardsDistributed, rewardToken, tokenBal, vestingSchedules,
                 beneficiarySchedules, vestingScheduleCount, totalVestedAmount,
                 totalClaimedAmount, vestBal>>

(***************************************************************************)
(* State after deployment                                                  *)
(***************************************************************************)
\* StakingContract constructor: the reward token rt, any rate of initRates and
\* any lock period of initLocks; users hold staking tokens and the contract
\* holds the funded reward pool (the fixture of src/test/staking.test.ts)
StakingInitWith(rt, initRates, initLocks) ==
  /\ stakes = [u \in Users |-> EmptyStake]
  /\ rewardRate \in initRates
  /\ lockPeriod \in initLocks
  /\ totalStaked = 0
  /\ totalRewardsDistributed = 0
  /\ rewardToken = rt
  /\ tokenBal = [t \in Tokens |-> [h \in StakeHolders |->
        (IF h \in Users /\ t = stakingToken THEN InitialBalance ELSE 0)
        + (IF h = StakingAddr /\ t = rt THEN RewardPool ELSE 0)]]
  /\ lastStake = NoCall
  /\ lastEvent = NoEvent
  /\ stakingGuard = IdleGuard

\* VestingContract constructor: no schedule; the owner holds the tokens to vest
VestingInit ==
  /\ vestingSchedules = << >>
  /\ beneficiarySchedules = [b \in Beneficiaries \cup {Owner} |-> << >>]
  /\ vestingScheduleCount = 0
  /\ totalVestedAmount = 0
  /\ totalClaimedAmount = 0
  /\ vestBal = [h \in VestHolders |-> IF h = Owner THEN OwnerFunds ELSE 0]
  /\ lastVest = NoCall
  /\ vestingGuard = IdleGuard

\* the fixture deploys with a reward token distinct from the staking token
StakingInit ==
  /\ now = 0
  /\ StakingInitWith("RWD", Rates, {0})
  /\ VestingInit

Init ==
  /\ now = 0
  /\ StakingInitWith("RWD", {0}, {0})
  /\ VestingInit

(***************************************************************************)
(* Specifications.  The two contracts share nothing but the clock, and in  *)
(* StakingContract the lock (checked before anything is written) and the   *)
(* reward accounting do not read each other's fields, so each is explored  *)
(* on its own: the calls of the other part are not made.                   *)
(***************************************************************************)
\* StakingContract with no lock period configured
StakingNext ==
  \/ \E u \in Users, a \in Amounts : Stake(u, a)
  \/ \E u \in Users, a \in Amounts : Withdraw(u, a)
  \/ \E u \in Users : ClaimRewards(u)
  \/ \E c \in StakeCallers, r \in Rates : SetRewardRate(c, r)
  \/ \E c \in StakeCallers, a \in Amounts : EmergencyWithdrawRewards(c, a)
  \/ StakingTick

StakingSpec == StakingInit /\ [][StakingNext]_vars

\* VestingContract
VestingNext ==
  \/ \E c \in VestCallers, b \in Beneficiaries \cup {ZeroAddr}, a \in VestAmounts,
        st \in StartTimes, cl \in Durations, d \in Durations :
        /\ vestingScheduleCount < MaxSchedules
        /\ CreateVesting(c, b, a, st, cl, d)
  \/ \E c \in VestCallers, id \in AnyIds : Claim(c, id)
  \/ \E c \in VestCallers : ClaimAll(c)
  \/ \E c \in VestCallers, id \in AnyIds : RevokeVesting(c, id)
  \/ VestingTick

VestingSpec == Init /\ [][VestingNext]_vars

(***************************************************************************)
(* The staking ledger with lock periods: both token configurations of the *)
(* constructor (separate reward token as in the test fixture, or the      *)
(* staking token itself as in the deployment script), any initial lock    *)
(* period, the owner changing it, and the reward rate fixed at 0 so that  *)
(* only principal moves.  The lock period is either 0 or the longest.     *)
(***************************************************************************)
EdgeLockPeriods == {0, MaxLock}

LockInit ==
  /\ now = 0
  /\ \E rt \in Tokens : StakingInitWith(rt, {0}, EdgeLockPeriods)
  /\ VestingInit

LockNext ==
  \/ \E u \in Users, amount \in Amounts : Stake(u, amount)
  \/ \E u \in Users, amount \in Amounts : Withdraw(u, amount)
  \/ \E c \in StakeCallers, newPeriod \in EdgeLockPeriods : SetLockPeriod(c, newPeriod)
  \/ \E c \in StakeCallers, amount \in Amounts : EmergencyWithdrawRewards(c, amount)
  \/ StakingTick

LockSpec == LockInit /\ [][LockNext]_vars

(***************************************************************************)
(* Re-staking under changing lock periods: the fixture's separate reward  *)
(* token, every lock period, no rewards and no owner withdrawal.          *)
(***************************************************************************)
RelockInit ==
  /\ now = 0
  /\ StakingInitWith("RWD", {0}, LockPeriods)
  /\ VestingInit

RelockNext ==
  \/ \E u \in Users, amount \in Amounts : Stake(u, amount)
  \/ \E u \in Users, amount \in Amounts : Withdraw(u, amount)
  \/ \E c \in StakeCallers, newPeriod \in LockPeriods : SetLockPeriod(c, newPeriod)
  \/ StakingTick

RelockSpec == RelockInit /\ [][RelockNext]_vars

(***************************************************************************)
(* Settling rewards at a constant rate: stakes and reward claims only,    *)
(* over a span long enough for a paid reward to carry a rounding loss.    *)
(***************************************************************************)
SettleTick ==
  /\ NoCallInProgress
  /\ now < MaxSettleTime
  /\ now' = now + 1
  /\ lastStake' = NoCall
  /\ lastEvent' = NoEvent
  /\ UNCHANGED <<stakingGuard, vestingVars, stakes, rewardRate, lockPeriod, totalStaked,
                 totalRewardsDistributed, rewardToken, tokenBal>>

SettleNext ==
  \/ \E u \in Users, amount \in Amounts : Stake(u, amount)
  \/ \E u \in Users : ClaimRewards(u)
  \/ SettleTick

SettleSpec == StakingInit /\ [][SettleNext]_vars

(***************************************************************************)
(* The owner-only functions of both contracts, called by the owner and by *)
(* everybody else, over a funded reward pool and at most one schedule,    *)
(* which starts at creation, has no cliff and vests over the longest      *)
(* duration.                                                              *)
(***************************************************************************)
AdminNext ==
  \/ \E c \in StakeCallers, newRate \in Rates : SetRewardRate(c, newRate)
  \/ \E c \in StakeCallers, newPeriod \in LockPeriods : SetLockPeriod(c, newPeriod)
  \/ \E c \in StakeCallers, amount \in Amounts : EmergencyWithdrawRewards(c, amount)
  \/ \E c \in VestCallers, b \in Beneficiaries, a \in VestAmounts :
        /\ vestingScheduleCount < 1
        /\ CreateVesting(c, b, a, 0, 0, MaxDuration)
  \/ \E c \in VestCallers, id \in AnyIds : RevokeVesting(c, id)
  \/ VestingTick

AdminSpec == Init /\ [][AdminNext]_vars

(***************************************************************************)
(* Creating and revoking schedules only: every argument of createVesting, *)
(* valid or not, by every caller.                                         *)
(***************************************************************************)
CreateNext ==
  \/ \E c \in VestCallers, b \in Beneficiaries \cup {ZeroAddr}, a \in VestAmounts,
        st \in StartTimes, cl \in Durations, d \in Durations :
        /\ vestingScheduleCount < MaxSchedules
        /\ CreateVesting(c, b, a, st, cl, d)
  \/ \E c \in VestCallers, id \in AnyIds : RevokeVesting(c, id)
  \/ VestingTick

CreateSpec == Init /\ [][CreateNext]_vars

(***************************************************************************)
(* Both ledgers with a token that runs transfer callbacks: one staker and *)
(* one beneficiary besides the owner, a reward rate of 100%, every amount *)
(* staked or withdrawn the largest one, any positive amount taken from    *)
(* the pool, and at most one schedule, of the largest amount, that starts *)
(* at creation with no cliff.  Inside a callback only the party it runs   *)
(* for makes calls.                                                       *)
(***************************************************************************)
ReentryUser == "u1"
ReentryBeneficiary == "b1"
ReentryAmounts == {MaxAmount}
ReentryStakeCallers == {ReentryUser, Owner}
ReentryVestCallers == {ReentryBeneficiary, Owner}

ReentryInit ==
  /\ now = 0
  /\ StakingInitWith("RWD", {PRECISION}, {0})
  /\ VestingInit

ReentryNext ==
  \/ \E a \in ReentryAmounts : InControl(ReentryUser) /\ Stake(ReentryUser, a)
  \/ \E a \in ReentryAmounts : InControl(ReentryUser) /\ Withdraw(ReentryUser, a)
  \/ InControl(ReentryUser) /\ ClaimRewards(ReentryUser)
  \/ \E c \in ReentryStakeCallers, a \in Amounts \ {0} :
        InControl(c) /\ EmergencyWithdrawRewards(c, a)
  \/ \E c \in ReentryVestCallers :
        /\ InControl(c)
        /\ vestingScheduleCount < 1
        /\ CreateVesting(c, ReentryBeneficiary, MaxVestAmount, 0, 0, MaxDuration)
  \/ \E c \in ReentryVestCallers, id \in AnyIds : InControl(c) /\ Claim(c, id)
  \/ \E c \in ReentryVestCallers : InControl(c) /\ ClaimAll(c)
  \/ \E c \in ReentryVestCallers, id \in AnyIds : InControl(c) /\ RevokeVesting(c, id)
  \/ \E party \in ReentryStakeCallers : StakingCallback(party)
  \/ StakingReturn
  \/ \E party \in ReentryVestCallers : VestingCallback(party)
  \/ VestingReturn
  \/ ReentryTick

ReentrySpec == ReentryInit /\ [][ReentryNext]_vars

(***************************************************************************)
(* Properties                                                              *)
(***************************************************************************)
RECURSIVE SumOver(_, _)
SumOver(f, S) ==
  IF S = {} THEN 0
  ELSE LET x == CHOOSE y \in S : TRUE IN f[x] + SumOver(f, S \ {x})

\* C1: after any sequence of stake and withdraw calls, successful or failing,
\* totalStaked is the sum of stakes[user].amount over all participants.
C1_TotalStakedIsSum ==
  totalStaked = SumOver([u \in Users |-> stakes[u].amount], Users)

\* both users hold a stake and the last call was a successful partial withdraw
C1_Witness ==
  /\ lastStake.op = "withdraw" /\ lastStake.err = "ok"
  /\ \A u \in Users : stakes[u].amount > 0

\* C2: no accrued reward is forfeited: a paying claimRewards transfers the
\* reward settled into rewardDebt plus the reward accrued since lastUpdateTime.
C2_ClaimPaysSettledDebt ==
  [][\A u \in Users :
       (ClaimRewards(u) /\ lastStake'.paid > 0) =>
          lastStake'.paid = stakes[u].rewardDebt + CalculatePendingReward(stakes[u])]_vars

\* C3: a claimRewards that pays a positive reward resets the checkpoint:
\* lastUpdateTime is the current time and rewardDebt is cleared to 0.
C3_ClaimResetsCheckpoint ==
  [][\A u \in Users :
       (ClaimRewards(u) /\ lastStake'.paid > 0) =>
          /\ stakes'[u].lastUpdateTime = now
          /\ stakes'[u].rewardDebt = 0]_vars

\* C4: rewardDebt of no participant decreases in any call other than
\* claimRewards, for any reward rate including 0.
C4_DebtNeverDecreases ==
  [][(\E v \in Users : ClaimRewards(v)) \/
     (\A u \in Users : stakes'[u].rewardDebt >= stakes[u].rewardDebt)]_vars

\* C5: claimedAmount <= totalAmount for every schedule in every reachable state.
C5_ClaimedAtMostTotal ==
  \A id \in KnownIds :
     vestingSchedules[id].claimedAmount <= vestingSchedules[id].totalAmount

\* a schedule claimed in full by claimAll
C5_Witness ==
  /\ lastVest.op = "claimAll" /\ lastVest.err = "ok"
  /\ \E id \in KnownIds :
        vestingSchedules[id].claimedAmount = vestingSchedules[id].totalAmount

\* C6: after revokeVesting the amount vested but not yet claimed at revocation
\* remains claimable by the beneficiary.
C6_VestedRemainsClaimable ==
  [][\A id \in KnownIds :
       (RevokeVesting(Owner, id) /\ lastVest'.err = "ok") =>
          ClaimableAt(vestingSchedules'[id], now) =
             VestedAt(vestingSchedules[id], now) - vestingSchedules[id].claimedAmount]_vars

Max0(x) == IF x > 0 THEN x ELSE 0

\* C7: getClaimableAmount is 0 for a revoked or unknown id and
\* max(0, vested - claimedAmount) otherwise; claim on a revoked schedule by its
\* beneficiary fails with VestingAlreadyRevoked and changes nothing.
C7_RevokedNotClaimable ==
  /\ [](\A id \in AnyIds :
          LET s == Schedule(vestingSchedules, id) IN
          getClaimableAmount(id) =
            IF id \notin KnownIds \/ s.revoked THEN 0
            ELSE Max0(VestedAt(s, now) - s.claimedAmount))
  /\ [][\A id \in KnownIds :
          (vestingSchedules[id].revoked /\ Claim(vestingSchedules[id].beneficiary, id)) =>
             /\ lastVest'.op = "claim" /\ lastVest'.err = "VestingAlreadyRevoked"
             /\ UNCHANGED <<vestingSchedules, vestBal, totalClaimedAmount>>]_vars

\* a claim was refused on a revoked schedule that has vested, unclaimed tokens
C7_Witness ==
  /\ lastVest.op = "claim" /\ lastVest.err = "VestingAlreadyRevoked"
  /\ \E id \in KnownIds :
        /\ vestingSchedules[id].revoked
        /\ getVestedAmount(id) > vestingSchedules[id].claimedAmount

\* C8: revokeVesting by the owner on an existing, non-revoked schedule succeeds,
\* sets revoked and moves exactly totalAmount - vested(now) from the contract to
\* the owner; on a revoked or unknown id it fails and changes nothing; revoked
\* never returns to false.
C8_RevokeOnce ==
  [][\A id \in AnyIds :
       LET s == Schedule(vestingSchedules, id)
           unvested == s.totalAmount - VestedAt(s, now) IN
       /\ (RevokeVesting(Owner, id) /\ id \in KnownIds /\ ~s.revoked) =>
             /\ lastVest'.err = "ok" /\ lastVest'.paid = unvested
             /\ vestingSchedules'[id].revoked
             /\ vestBal'[Owner] = vestBal[Owner] + unvested
             /\ vestBal'[VestingAddr] = vestBal[VestingAddr] - unvested
       /\ (RevokeVesting(Owner, id) /\ (id \notin KnownIds \/ s.revoked)) =>
             /\ lastVest'.err = IF id \in KnownIds THEN "VestingAlreadyRevoked"
                                ELSE "VestingNotFound"
             /\ UNCHANGED <<vestingSchedules, vestBal>>
       /\ (id \in KnownIds /\ s.revoked) => vestingSchedules'[id].revoked]_vars

\* a second revokeVesting of a schedule was refused
C8_Witness ==
  /\ lastVest.op = "revokeVesting" /\ lastVest.err = "VestingAlreadyRevoked"
  /\ vestBal[Owner] > OwnerFunds - totalVestedAmount

VestTimes == 0..(MaxVestTime + MaxDuration + 1)

\* C9: for a fixed schedule getVestedAmount is non-decreasing in time, 0 before
\* startTime + cliffDuration and totalAmount from startTime + vestingDuration on.
C9_VestedMonotone ==
  \A id \in KnownIds : \A t \in VestTimes :
     LET s == vestingSchedules[id] IN
     /\ t < s.startTime + s.cliffDuration => VestedAt(s, t) = 0
     /\ t >= s.startTime + s.vestingDuration => VestedAt(s, t) = s.totalAmount
     /\ VestedAt(s, t) <= VestedAt(s, t + 1)

\* a schedule with a cliff that is partly vested now
C9_Witness ==
  \E id \in KnownIds :
     /\ vestingSchedules[id].cliffDuration > 0
     /\ getVestedAmount(id) > 0
     /\ getVestedAmount(id) < vestingSchedules[id].totalAmount

\* the scenario of the documentation, in days: 10000 tokens, cliff 30, duration 365
ExampleSchedule ==
  [beneficiary |-> "b1", totalAmount |-> 10000, claimedAmount |-> 0,
   startTime |-> 0, cliffDuration |-> 30, vestingDuration |-> 365, revoked |-> FALSE]

\* C10: between the cliff and the end, getVestedAmount is
\* floor(totalAmount * (now - startTime) / vestingDuration), elapsed time being
\* measured from startTime; a claim made then is paid that amount less what
\* was claimed before.
C10_LinearFromStart ==
  /\ \A id \in KnownIds : \A t \in VestTimes :
        LET s == vestingSchedules[id] IN
        (s.startTime + s.cliffDuration <= t /\ t < s.startTime + s.vestingDuration) =>
           VestedAt(s, t) = (s.totalAmount * (t - s.startTime)) \div s.vestingDuration
  /\ VestedAt(ExampleSchedule, 29) = 0
  /\ VestedAt(ExampleSchedule, 30) = 821
  /\ VestedAt(ExampleSchedule, 182) = 4986
  /\ VestedAt(ExampleSchedule, 366) = 10000

\* a schedule at its cliff boundary, before its end, with a positive vested amount
C10_Witness ==
  \E id \in KnownIds :
     LET s == vestingSchedules[id] IN
     /\ s.cliffDuration > 0
     /\ now = s.startTime + s.cliffDuration
     /\ now < s.startTime + s.vestingDuration
     /\ getVestedAmount(id) > 0

\* C11: a successful claim on a schedule adds exactly the claimable amount to
\* its claimedAmount and pays exactly that amount to the beneficiary, after
\* which nothing is claimable at the same time; a claim by the beneficiary
\* of a live schedule with nothing claimable fails with NothingToClaim and
\* moves nothing, and one with something claimable (as after more time has
\* passed) succeeds.
C11_ClaimTakesClaimable ==
  [][\A id \in KnownIds :
       LET s == vestingSchedules[id]
           claimable == getClaimableAmount(id) IN
       (~s.revoked /\ Claim(s.beneficiary, id)) =>
         IF claimable = 0
         THEN /\ lastVest'.err = "NothingToClaim"
              /\ UNCHANGED <<vestingSchedules, vestBal, totalClaimedAmount>>
         ELSE /\ lastVest' = [op |-> "claim", err |-> "ok", paid |-> claimable]
              /\ vestingSchedules'[id].claimedAmount = s.claimedAmount + claimable
              /\ vestBal'[s.beneficiary] = vestBal[s.beneficiary] + claimable
              /\ vestBal'[VestingAddr] = vestBal[VestingAddr] - claimable
              /\ ClaimableAt(vestingSchedules'[id], now') = 0]_vars

\* a later claim has just succeeded on a schedule that had been claimed before
C11_Witness ==
  /\ lastVest = [op |-> "claim", err |-> "ok", paid |-> 2]
  /\ vestingScheduleCount = 1
  /\ \E id \in KnownIds : vestingSchedules[id].claimedAmount > 2

\* the ids listed for beneficiary b, as a set
ListedIds(b) == {beneficiarySchedules[b][i] : i \in 1..Len(beneficiarySchedules[b])}

\* C12: claimAll pays the caller the sum of the claimable amounts of the
\* caller's schedules (revoked ones count 0) and leaves every schedule as a
\* claim on it alone would: each claimedAmount grows by its own claimable
\* amount; it fails with NothingToClaim, changing nothing, exactly when that
\* sum is zero.
C12_ClaimAllIsSumOfClaims ==
  [][\A c \in VestCallers :
       LET mine == ListedIds(c)
           sum == SumOver([id \in mine |-> getClaimableAmount(id)], mine) IN
       ClaimAll(c) =>
         IF sum = 0
         THEN /\ lastVest'.err = "NothingToClaim"
              /\ UNCHANGED <<vestingSchedules, vestBal, totalClaimedAmount>>
         ELSE /\ lastVest' = [op |-> "claimAll", err |-> "ok", paid |-> sum]
              /\ vestBal'[c] = vestBal[c] + sum
              /\ vestBal'[VestingAddr] = vestBal[VestingAddr] - sum
              /\ totalClaimedAmount' = totalClaimedAmount + sum
              /\ \A id \in KnownIds :
                   vestingSchedules'[id] =
                     IF id \in mine
                     THEN [vestingSchedules[id] EXCEPT
                             !.claimedAmount = @ + getClaimableAmount(id)]
                     ELSE vestingSchedules[id]]_vars

\* one claimAll has just paid a beneficiary two schedules at once
C12_Witness ==
  /\ lastVest.op = "claimAll" /\ lastVest.err = "ok"
  /\ \E b \in Beneficiaries :
       /\ Len(beneficiarySchedules[b]) = 2
       /\ \A id \in ListedIds(b) : vestingSchedules[id].claimedAmount > 0
       /\ lastVest.paid = SumOver([id \in ListedIds(b) |->
                                     vestingSchedules[id].claimedAmount], ListedIds(b))

\* C13: a withdraw of a positive amount larger than the caller's staked
\* principal fails with InsufficientBalance, whether or not the stake is
\* locked, and changes no stake record, no total and no token balance.
C13_WithdrawBeyondPrincipalFails ==
  [][\A u \in Users, amount \in Amounts :
       (amount > stakes[u].amount /\ Withdraw(u, amount)) =>
          /\ lastStake' = [op |-> "withdraw", err |-> "InsufficientBalance", paid |-> 0]
          /\ UNCHANGED <<stakes, totalStaked, totalRewardsDistributed, tokenBal>>]_vars

\* a withdraw has just failed so while the ledger holds a locked stake
C13_Witness ==
  /\ lastStake = [op |-> "withdraw", err |-> "InsufficientBalance", paid |-> 0]
  /\ \E u \in Users : stakes[u].amount = 1 /\ now < stakes[u].lockUntil
  /\ totalStaked = 1

\* C14: a withdraw of a positive amount within the caller's principal fails
\* with TokensLocked, changing nothing, while the stake has lockUntil > 0 and
\* now < lockUntil; otherwise (lockUntil = 0 or now >= lockUntil) it succeeds:
\* principal and totalStaked drop by the amount and the amount is returned
\* to the caller.
C14_LockGatesWithdraw ==
  [][\A u \in Users, amount \in Amounts :
       (amount > 0 /\ amount <= stakes[u].amount /\ Withdraw(u, amount)) =>
          IF stakes[u].lockUntil > 0 /\ now < stakes[u].lockUntil
          THEN /\ lastStake' = [op |-> "withdraw", err |-> "TokensLocked", paid |-> 0]
               /\ UNCHANGED <<stakes, totalStaked, totalRewardsDistributed, tokenBal>>
          ELSE /\ lastStake'.err = "ok"
               /\ stakes'[u].amount = stakes[u].amount - amount
               /\ totalStaked' = totalStaked - amount
               /\ tokenBal'[stakingToken][u] = tokenBal[stakingToken][u] + amount]_vars

C16_PendingRewardFormula ==
  /\ \A u \in Users :
       LET s == stakes[u] IN
       /\ getPendingReward(u) =
            (s.amount * rewardRate * (now - s.lastUpdateTime))
               \div (PRECISION * SECONDS_PER_YEAR)
       /\ (s.amount = 0 \/ rewardRate = 0) => getPendingReward(u) = 0
  /\ Reward(1000, 1, 365, 10, 365) = 100
  /\ Reward(1000, 1, 364, 10, 365) = 99

\* a stake of 1 at the full rate shows one whole year's reward, and a second
\* stake shows a reward rounded down to 0
C16_Witness ==
  /\ rewardRate = PRECISION
  /\ stakes["u1"].amount = 1 /\ getPendingReward("u1") = 1
  /\ stakes["u2"].amount = 1 /\ now > stakes["u2"].lastUpdateTime
  /\ getPendingReward("u2") = 0

\* C17: at a constant rate and principal, a reward claim at now followed by
\* one at any later time t2 pays in total at most what a single claim at t2
\* over the whole span would have paid, and at most one smallest unit less.
C17_SplitSettlementLosesAtMostOne ==
  [][\A u \in Users :
       ClaimRewards(u) =>
         \A t2 \in now..MaxSettleTime :
            LET single == PendingRewardAt(stakes[u], t2)
                split == lastStake'.paid + PendingRewardAt(stakes'[u], t2) IN
            split <= single /\ single <= split + 1]_vars

\* a claim has just paid a reward rounded down, so that the two parts together
\* fall one unit short of the single settlement one time unit later
C17_Witness ==
  /\ lastStake = [op |-> "claimRewards", err |-> "ok", paid |-> 1]
  /\ now < MaxSettleTime
  /\ \E u \in Users :
       /\ stakes[u].amount = 1 /\ stakes[u].lastUpdateTime = now /\ now = 3
       /\ rewardRate = PRECISION
       /\ PendingRewardAt(stakes[u], now + 1) = 0

\* C18: rewardRate is at most PRECISION (100% per year) in every reachable
\* state, whatever the constructor was given and whatever setRewardRate
\* calls were made.
C18_RewardRateBounded == rewardRate <= PRECISION

\* every variable of the two ledgers and every token balance is unchanged
LedgerUnchanged ==
  UNCHANGED <<stakes, rewardRate, lockPeriod, totalStaked, totalRewardsDistributed,
              rewardToken, tokenBal, vestingSchedules, beneficiarySchedules,
              vestingScheduleCount, totalVestedAmount, totalClaimedAmount, vestBal>>

\* C19: setRewardRate, setLockPeriod, emergencyWithdrawRewards, createVesting
\* and revokeVesting called by anyone but the owner fail, change no ledger
\* state and move no tokens; called by the owner, a valid new rate and a new
\* lock period are stored.
C19_OwnerOnly ==
  [][/\ \A c \in StakeCallers \ {Owner} :
          /\ \A newRate \in Rates :
               (lastStake'.op = "setRewardRate" /\ SetRewardRate(c, newRate)) =>
                  lastStake'.err = "NotOwner" /\ LedgerUnchanged
          /\ \A newPeriod \in LockPeriods :
               (lastStake'.op = "setLockPeriod" /\ SetLockPeriod(c, newPeriod)) =>
                  lastStake'.err = "NotOwner" /\ LedgerUnchanged
          /\ \A amount \in Amounts :
               (lastStake'.op = "emergencyWithdrawRewards"
                  /\ EmergencyWithdrawRewards(c, amount)) =>
                  lastStake'.err = "NotOwner" /\ LedgerUnchanged
     /\ \A c \in VestCallers \ {Owner} :
          /\ \A b \in Beneficiaries, a \in VestAmounts :
               (lastVest'.op = "createVesting"
                  /\ CreateVesting(c, b, a, 0, 0, MaxDuration)) =>
                  lastVest'.err = "NotOwner" /\ LedgerUnchanged
          /\ \A id \in AnyIds :
               (lastVest'.op = "revokeVesting" /\ RevokeVesting(c, id)) =>
                  lastVest'.err = "NotOwner" /\ LedgerUnchanged
     /\ \A newRate \in 0..PRECISION :
          (lastStake'.op = "setRewardRate" /\ SetRewardRate(Owner, newRate)) =>
             rewardRate' = newRate
     /\ \A newPeriod \in LockPeriods :
          (lastStake'.op = "setLockPeriod" /\ SetLockPeriod(Owner, newPeriod)) =>
             lockPeriod' = newPeriod]_vars

\* a stranger's emergencyWithdrawRewards on a funded pool and a stranger's
\* revokeVesting of a live, partly unvested schedule have both been refused
C19_Witness ==
  /\ lastStake = [op |-> "emergencyWithdrawRewards", err |-> "NotOwner", paid |-> 0]
  /\ tokenBal[rewardToken][StakingAddr] > 0
  /\ lastVest = [op |-> "revokeVesting", err |-> "NotOwner", paid |-> 0]
  /\ \E id \in KnownIds :
       ~vestingSchedules[id].revoked /\ getVestedAmount(id) < vestingSchedules[id].totalAmount

\* C20: a claim on a schedule by a caller other than its beneficiary fails
\* and leaves every schedule and every balance unchanged; claimAll changes
\* no schedule whose beneficiary is not the caller; no step removes a
\* schedule or changes its beneficiary.
C20_OnlyBeneficiaryClaims ==
  [][/\ \A id \in KnownIds, c \in VestCallers :
          (c # vestingSchedules[id].beneficiary /\ lastVest'.op = "claim" /\ Claim(c, id)) =>
             /\ lastVest'.err # "ok"
             /\ UNCHANGED <<vestingSchedules, vestBal, totalClaimedAmount>>
     /\ \A c \in VestCallers :
          (lastVest'.op = "claimAll" /\ ClaimAll(c)) =>
             \A id \in KnownIds :
                vestingSchedules[id].beneficiary # c =>
                   vestingSchedules'[id] = vestingSchedules[id]
     /\ \A id \in KnownIds :
          /\ id \in DOMAIN vestingSchedules'
          /\ vestingSchedules'[id].beneficiary = vestingSchedules[id].beneficiary]_vars

\* a claim by somebody else on a schedule with tokens to claim has been refused
C20_Witness ==
  /\ lastVest = [op |-> "claim", err |-> "NotBeneficiary", paid |-> 0]
  /\ vestingScheduleCount = 1
  /\ \E id \in KnownIds : getClaimableAmount(id) > 0

\* C21: createVesting by the owner with a zero beneficiary, a zero
\* vestingDuration or cliffDuration > vestingDuration fails with
\* InvalidVestingParameters, and with a zero totalAmount with ZeroAmount
\* (the beneficiary being checked first); it then creates no schedule and
\* moves no tokens.  Hence every stored schedule has a non-zero beneficiary,
\* totalAmount > 0, vestingDuration > 0 and cliffDuration <= vestingDuration.
C21_CreateVestingValidates ==
  /\ [](\A id \in KnownIds :
          LET s == vestingSchedules[id] IN
          /\ s.beneficiary # ZeroAddr
          /\ s.totalAmount > 0
          /\ s.vestingDuration > 0
          /\ s.cliffDuration <= s.vestingDuration)
  /\ [][\A b \in Beneficiaries \cup {ZeroAddr}, a \in VestAmounts,
           st \in StartTimes, cl \in Durations, d \in Durations :
          (/\ b = ZeroAddr \/ a = 0 \/ d = 0 \/ cl > d
           /\ lastVest'.op = "createVesting"
           /\ CreateVesting(Owner, b, a, st, cl, d)) =>
             /\ lastVest'.err =
                  IF b # ZeroAddr /\ a = 0 THEN "ZeroAmount" ELSE "InvalidVestingParameters"
             /\ UNCHANGED <<vestingSchedules, beneficiarySchedules, vestingScheduleCount,
                            totalVestedAmount, totalClaimedAmount, vestBal>>]_vars

\* after one schedule was stored, a createVesting with a cliff longer than the
\* vesting has been refused
C21_Witness ==
  /\ lastVest = [op |-> "createVesting", err |-> "InvalidVestingParameters", paid |-> 0]
  /\ vestingScheduleCount = 1
  /\ vestBal[VestingAddr] = MaxVestAmount

\* all ids listed under any address, in creation order per address
AllListed == UNION {ListedIds(b) : b \in DOMAIN beneficiarySchedules}

\* C22: a successful createVesting produces an id that no schedule had
\* before, even with the parameters of an earlier call at the same
\* timestamp, and leaves every existing schedule as it was;
\* vestingScheduleCount is the number of schedules created, and each id is
\* listed exactly once, under its beneficiary and nowhere else.
C22_ScheduleIdsUnique ==
  /\ [](/\ vestingScheduleCount = Cardinality(KnownIds)
        /\ \A id \in KnownIds :
             \A b \in DOMAIN beneficiarySchedules :
                Cardinality({i \in 1..Len(beneficiarySchedules[b]) :
                               beneficiarySchedules[b][i] = id})
                  = IF b = vestingSchedules[id].beneficiary THEN 1 ELSE 0
        /\ AllListed = KnownIds)
  /\ [][(lastVest'.op = "createVesting" /\ lastVest'.err = "ok"
           /\ vestingSchedules' # vestingSchedules) =>
          /\ Cardinality(DOMAIN vestingSchedules' \ KnownIds) = 1
          /\ \A id \in KnownIds : vestingSchedules'[id] = vestingSchedules[id]]_vars

\* two schedules with the same beneficiary, amount, start, cliff and duration
\* exist, created at the same timestamp
C22_Witness ==
  /\ lastVest = [op |-> "createVesting", err |-> "ok", paid |-> 0]
  /\ \E id1 \in KnownIds, id2 \in KnownIds :
       /\ id1 # id2
       /\ vestingSchedules[id1] = vestingSchedules[id2]
       /\ id1[6] = id2[6]

\* C24: claimRewards by a participant with no principal or no pending reward
\* completes without error, pays nothing and changes no stake record, total
\* or balance; a claimRewards that pays raises totalRewardsDistributed by
\* exactly the amount that moved from the contract to the participant.
C24_ClaimRewardsNoOpOrCounted ==
  [][\A u \in Users :
       ClaimRewards(u) =>
         IF stakes[u].amount = 0 \/ getPendingReward(u) = 0
         THEN /\ lastStake' = [op |-> "claimRewards", err |-> "ok", paid |-> 0]
              /\ UNCHANGED <<stakes, totalStaked, totalRewardsDistributed, tokenBal>>
         ELSE /\ totalRewardsDistributed' = totalRewardsDistributed + lastStake'.paid
              /\ tokenBal'[rewardToken][u] = tokenBal[rewardToken][u] + lastStake'.paid
              /\ tokenBal'[rewardToken][StakingAddr] =
                   tokenBal[rewardToken][StakingAddr] - lastStake'.paid
              /\ lastStake'.err = "ok" => lastStake'.paid = getPendingReward(u)]_vars

\* every participant holds a stake with nothing pending at a positive rate,
\* rewards were paid before, and a claimRewards has just paid nothing
C24_Witness ==
  /\ lastStake = [op |-> "claimRewards", err |-> "ok", paid |-> 0]
  /\ rewardRate > 0
  /\ totalRewardsDistributed > 0
  /\ \A u \in Users : stakes[u].amount > 0 /\ getPendingReward(u) = 0

\* C25: stake(0) and withdraw(0) fail with ZeroAmount, and a stake of more
\* staking tokens than the caller holds fails in its token transfer; each of
\* these failures leaves every stake record, totalStaked and every token
\* balance unchanged.
C25_ZeroAndUnfundedFail ==
  [][\A u \in Users :
       /\ (lastStake'.op = "stake" /\ Stake(u, 0)) =>
             /\ lastStake'.err = "ZeroAmount"
             /\ UNCHANGED <<stakes, totalStaked, totalRewardsDistributed, tokenBal>>
       /\ (lastStake'.op = "withdraw" /\ Withdraw(u, 0)) =>
             /\ lastStake'.err = "ZeroAmount"
             /\ UNCHANGED <<stakes, totalStaked, totalRewardsDistributed, tokenBal>>
       /\ \A amount \in Amounts :
            (amount > tokenBal[stakingToken][u] /\ Stake(u, amount)) =>
               /\ lastStake'.err = "TransferFailed"
               /\ UNCHANGED <<stakes, totalStaked, totalRewardsDistributed, tokenBal>>]_vars

\* a participant with half the tokens staked has just failed to stake more than
\* the other half
C25_Witness ==
  /\ lastStake = [op |-> "stake", err |-> "TransferFailed", paid |-> 0]
  /\ totalStaked = 1
  /\ \E u \in Users : stakes[u].amount = 1 /\ tokenBal[stakingToken][u] = 1

\* the reward of stake record s for the whole interval from its
\* lastUpdateTime to now at the one rate given
WholeIntervalReward(s, rate) ==
  (s.amount * rate * (now - s.lastUpdateTime)) \div (PRECISION * SECONDS_PER_YEAR)

C28_PrincipalBacked == tokenBal[stakingToken][StakingAddr] >= totalStaked

\* what the live schedules may still pay out in total
LiveOutstanding ==
  SumOver([id \in KnownIds |->
             IF vestingSchedules[id].revoked THEN 0
             ELSE vestingSchedules[id].totalAmount - vestingSchedules[id].claimedAmount],
          KnownIds)

\* C29: in every reachable state the vesting contract holds at least the sum,
\* over the schedules not revoked, of totalAmount - claimedAmount; so no
\* claim or claimAll of a vested amount fails in its token transfer.
C29_VestingBacked ==
  /\ [](vestBal[VestingAddr] >= LiveOutstanding)
  /\ [][lastVest'.op \in {"claim", "claimAll"} => lastVest'.err # "TransferFailed"]_vars

\* one schedule was revoked after a part of it was claimed, the other is live
\* and partly claimed
C29_Witness ==
  /\ \E id1 \in KnownIds, id2 \in KnownIds :
       /\ vestingSchedules[id1].revoked /\ vestingSchedules[id1].claimedAmount > 0
       /\ vestingSchedules[id1].claimedAmount < vestingSchedules[id1].totalAmount
       /\ ~vestingSchedules[id2].revoked /\ vestingSchedules[id2].claimedAmount > 0
  /\ lastVest.op = "claim" /\ lastVest.err = "ok"

\* C30: in every reachable state every schedule, revoked or not, has
\* claimedAmount <= getVestedAmount at the current time, and
\* totalClaimedAmount is the sum of claimedAmount over all schedules.
C30_ClaimedAtMostVested ==
  /\ \A id \in KnownIds : vestingSchedules[id].claimedAmount <= getVestedAmount(id)
  /\ totalClaimedAmount =
       SumOver([id \in KnownIds |-> vestingSchedules[id].claimedAmount], KnownIds)

\* two schedules are partly claimed, neither of them fully vested, one through
\* claimAll
C30_Witness ==
  /\ lastVest.op = "claimAll" /\ lastVest.err = "ok"
  /\ \E id1 \in KnownIds, id2 \in KnownIds :
       /\ id1 # id2
       /\ \A id \in {id1, id2} :
            /\ vestingSchedules[id].claimedAmount > 0
            /\ getVestedAmount(id) < vestingSchedules[id].totalAmount

\* C27: a successful setLockPeriod(newPeriod) emits LockPeriodUpdated with
\* the lock period in force before the call as oldPeriod and the stored
\* value as newPeriod.
C27_LockPeriodEvent ==
  [][\A newPeriod \in LockPeriods :
       (lastStake'.op = "setLockPeriod" /\ SetLockPeriod(Owner, newPeriod)) =>
          /\ lockPeriod' = newPeriod
          /\ lastEvent' = Event("LockPeriodUpdated", lockPeriod, newPeriod)]_vars


\* the re-entered call reverted: it reports an error and wrote nothing
StakingCallRejected ==
  /\ lastStake'.err # "ok"
  /\ UNCHANGED <<stakes, totalStaked, totalRewardsDistributed, tokenBal>>

VestingCallRejected ==
  /\ lastVest'.err # "ok"
  /\ UNCHANGED <<vestingSchedules, beneficiarySchedules, vestingScheduleCount,
                 totalVestedAmount, totalClaimedAmount, vestBal>>

\* C23: while a token-transfer callback of a call of StakingContract runs,
\* every call of stake, withdraw, claimRewards and emergencyWithdrawRewards
\* is rejected, and while a callback of a call of VestingContract runs, every
\* call of createVesting, claim, claimAll and revokeVesting is rejected
C23_ReentrantCallsRejected ==
  [][/\ stakingGuard.inCall # "none" =>
          /\ \A a \in ReentryAmounts :
                (lastStake'.op = "stake" /\ Stake(ReentryUser, a)) => StakingCallRejected
          /\ \A a \in ReentryAmounts :
                (lastStake'.op = "withdraw" /\ Withdraw(ReentryUser, a))
                   => StakingCallRejected
          /\ (lastStake'.op = "claimRewards" /\ ClaimRewards(ReentryUser))
                => StakingCallRejected
          /\ \A c \in ReentryStakeCallers, a \in Amounts \ {0} :
                (lastStake'.op = "emergencyWithdrawRewards"
                   /\ EmergencyWithdrawRewards(c, a)) => StakingCallRejected
     /\ vestingGuard.inCall # "none" =>
          /\ \A c \in ReentryVestCallers :
                (lastVest'.op = "createVesting"
                   /\ CreateVesting(c, ReentryBeneficiary, MaxVestAmount, 0, 0, MaxDuration))
                   => VestingCallRejected
          /\ \A c \in ReentryVestCallers, id \in AnyIds :
                (lastVest'.op = "claim" /\ Claim(c, id)) => VestingCallRejected
          /\ \A c \in ReentryVestCallers :
                (lastVest'.op = "claimAll" /\ ClaimAll(c)) => VestingCallRejected
          /\ \A c \in ReentryVestCallers, id \in AnyIds :
                (lastVest'.op = "revokeVesting" /\ RevokeVesting(c, id))
                   => VestingCallRejected]_vars

=============================================================================
